---- MODULE Spec2Model ----
(***************************************************************************)
(* Move semantics of struct values held inline (on the stack) and behind   *)
(* a Box (on the heap), after move_semantics_of_structs_and_boxed_values.rs*)
(*                                                                         *)
(* The state is what the ownership rules of the source track for one       *)
(* binding `foo` of type Foo (or Box<Foo>): the move state of each field,  *)
(* the contents, what the receiver `a` of a move holds, and what has been  *)
(* released.  Three programs are modelled: the two functions of the file,  *)
(* statement by statement, and a client that applies the same operations   *)
(* to a Foo in any order.  A rejected operation is a compile-time          *)
(* rejection: it is recorded in `result` and changes nothing else.         *)
(***************************************************************************)
EXTENDS Integers, FiniteSets, Sequences, TLC

\* ---- bounds ----
ValSpread == 1          \* client literals range over InitVal +/- ValSpread
MaxAccess == 2          \* the client attempts at most this many field reads

\* ---- the struct Foo { x: i32, y: Box<i32> } ----
InitVal == 10
Fields == {"x", "y"}
FieldType == [x |-> "i32", y |-> "Box"]
IsCopy(f) == FieldType[f] = "i32"
Movable == {f \in Fields : ~IsCopy(f)}
Values == (InitVal - ValSpread)..(InitVal + ValSpread)

OnStack == "move_semantics_of_struct_values_on_stack"
OnHeap == "move_semantics_of_struct_values_on_heap"
Client == "client"

VARIABLES
  fn,        \* the program: OnStack, OnHeap or Client
  pc,        \* position in the program
  storage,   \* "None" before construction, then "Stack" or "Heap"
  fstate,    \* move state of each field as seen through foo
  content,   \* content of each field
  held,      \* fields whose content the receiver of a move owns
  released,  \* how many times each field's content has been released
  dropped,   \* foo has gone out of scope
  a,         \* the integer behind the moved-out handle, <<>> when none
  b,         \* the value of the last accepted field read, <<>> when none
  ret,       \* the function's return value, <<>> when none
  result,    \* outcome of the last operation
  op,        \* the last operation and its field
  nmoves,    \* accepted moves since construction
  taken,     \* the fields an accepted move has taken out of foo
  naccess    \* field reads attempted since construction

vars == <<fn, pc, storage, fstate, content, held, released, dropped,
          a, b, ret, result, op, nmoves, taken, naccess>>

Op(n, f) == [name |-> n, field |-> f]

\* ---- the ownership rules ----

\* every field of a freshly built Foo is owned by the binding
Fresh_allMoved == [f \in Fields |-> "Moved"]
Fresh == [f \in Fields |-> "Owned"]

\* the literal each function builds
StackFoo_x11 == [x |-> InitVal + 1, y |-> InitVal]
StackFoo == [x |-> InitVal, y |-> InitVal]

HeapFoo_y11 == [x |-> InitVal, y |-> InitVal + 1]
HeapFoo == [x |-> InitVal, y |-> InitVal]

\* a field may be used through foo only while foo still owns it
Usable_always(st, f) == TRUE
Usable(st, f) == st[f] = "Owned"

\* the fields foo loses when field f is moved out: a struct held inline is
\* left partially moved, a Box does not allow partial ownership
Invalidated_partial(sc, f) == {f}
Invalidated_whole(sc, f) == Fields
Invalidated(sc, f) == IF sc = "Heap" THEN Fields ELSE {f}

MarkMoved_noop(st, S) == st
MarkMoved(st, S) == [g \in Fields |-> IF g \in S THEN "Moved" ELSE st[g]]

\* reading a field leaves foo's ownership as it was
AfterAccess_moves(st, f) == [st EXCEPT ![f] = "Moved"]
AfterAccess(st, f) == st

\* the fields released when foo goes out of scope
ToRelease_all(st) == Fields
ToRelease_none(st) == {}
ToRelease(st) == {f \in Fields : st[f] = "Owned"}

ReleaseAll(rel, S) == [f \in Fields |-> rel[f] + (IF f \in S THEN 1 ELSE 0)]

\* ---- the operations ----

construct(sc, lit) ==
  /\ storage' = sc
  /\ fstate' = Fresh
  /\ content' = lit
  /\ held' = {}
  /\ released' = [f \in Fields |-> 0]
  /\ dropped' = FALSE
  /\ a' = <<>>
  /\ b' = <<>>
  /\ result' = "Ok"
  /\ op' = Op("construct", "-")
  /\ nmoves' = 0
  /\ taken' = {}
  /\ naccess' = 0

move_field(f) ==
  /\ op' = Op("move_field", f)
  /\ IF Usable(fstate, f)
       THEN /\ fstate' = MarkMoved(fstate, Invalidated(storage, f))
            /\ held' = held \cup Invalidated(storage, f)
            /\ a' = <<content[f]>>
            /\ result' = "Ok"
            /\ nmoves' = nmoves + 1
            /\ taken' = taken \cup {f}
       ELSE /\ result' = "UseAfterMove"
            /\ UNCHANGED <<fstate, held, a, nmoves, taken>>
  /\ UNCHANGED <<storage, content, released, dropped, b, naccess>>

access_field(f) ==
  /\ op' = Op("access_field", f)
  /\ naccess' = naccess + 1
  /\ IF Usable(fstate, f)
       THEN /\ b' = <<content[f]>>
            /\ fstate' = AfterAccess(fstate, f)
            /\ result' = "Ok"
       ELSE /\ result' = "UseAfterMove"
            /\ UNCHANGED <<b, fstate>>
  /\ UNCHANGED <<storage, content, held, released, dropped, a, nmoves, taken>>

drop_value ==
  /\ op' = Op("drop", "-")
  /\ released' = ReleaseAll(released, ToRelease(fstate))
  /\ dropped' = TRUE
  /\ result' = "Ok"
  /\ UNCHANGED <<storage, fstate, content, held, a, b, nmoves, taken, naccess>>

drop_receiver ==
  /\ op' = Op("drop_receiver", "-")
  /\ released' = ReleaseAll(released, held)
  /\ held' = {}
  /\ a' = <<>>
  /\ result' = "Ok"
  /\ UNCHANGED <<storage, fstate, content, dropped, b, nmoves, taken, naccess>>

\* the closing brace of a function: a, then foo, go out of scope
scope_exit ==
  /\ op' = Op("scope_exit", "-")
  /\ released' = ReleaseAll(ReleaseAll(released, held), ToRelease(fstate))
  /\ held' = {}
  /\ a' = <<>>
  /\ dropped' = TRUE
  /\ result' = "Ok"
  /\ UNCHANGED <<storage, fstate, content, b, nmoves, taken, naccess>>

\* a statement the rules reject stops the program from being accepted
Goto(next) == pc' = IF result' = "Ok" THEN next ELSE "rejected"

\* ---- move_semantics_of_struct_values_on_stack ----

StackLetFoo ==
  /\ fn = OnStack /\ pc = "L10"
  /\ construct("Stack", StackFoo)
  /\ Goto("L12")
  /\ UNCHANGED <<fn, ret>>

StackLetA ==
  /\ fn = OnStack /\ pc = "L12"
  /\ move_field("y")
  /\ Goto("L15")
  /\ UNCHANGED <<fn, ret>>

StackLetB ==
  /\ fn = OnStack /\ pc = "L15"
  /\ access_field("x")
  /\ Goto("L18")
  /\ UNCHANGED <<fn, ret>>

StackReturn ==
  /\ fn = OnStack /\ pc = "L18"
  /\ ret' = b
  /\ pc' = "L19"
  /\ op' = Op("return", "-")
  /\ UNCHANGED <<fn, storage, fstate, content, held, released, dropped,
                 a, b, result, nmoves, taken, naccess>>

StackExit ==
  /\ fn = OnStack /\ pc = "L19"
  /\ scope_exit
  /\ pc' = "done"
  /\ UNCHANGED <<fn, ret>>

\* ---- move_semantics_of_struct_values_on_heap ----

HeapLetFoo ==
  /\ fn = OnHeap /\ pc = "L22"
  /\ construct("Heap", HeapFoo)
  /\ Goto("L25")
  /\ UNCHANGED <<fn, ret>>

HeapLetA ==
  /\ fn = OnHeap /\ pc = "L25"
  /\ move_field("y")
  /\ Goto("L29")
  /\ UNCHANGED <<fn, ret>>

HeapReturn ==
  /\ fn = OnHeap /\ pc = "L29"
  /\ ret' = a
  /\ pc' = "L30"
  /\ op' = Op("return", "-")
  /\ UNCHANGED <<fn, storage, fstate, content, held, released, dropped,
                 a, b, result, nmoves, taken, naccess>>

HeapExit ==
  /\ fn = OnHeap /\ pc = "L30"
  /\ scope_exit
  /\ pc' = "done"
  /\ UNCHANGED <<fn, ret>>

\* ---- a client applying the operations to a Foo in any order ----

Construct ==
  /\ fn = Client /\ pc = "start"
  /\ \E sc \in {"Stack", "Heap"}, xv \in Values, yv \in Values :
       construct(sc, [x |-> xv, y |-> yv])
  /\ pc' = "live"
  /\ UNCHANGED <<fn, ret>>

MoveField ==
  /\ fn = Client /\ pc = "live"
  /\ \E f \in Movable : move_field(f)
  /\ UNCHANGED <<fn, pc, ret>>

AccessField ==
  /\ fn = Client /\ pc = "live"
  /\ naccess < MaxAccess
  /\ \E f \in Fields : access_field(f)
  /\ UNCHANGED <<fn, pc, ret>>

Drop ==
  /\ fn = Client /\ pc = "live"
  /\ drop_value
  /\ pc' = "dropped"
  /\ UNCHANGED <<fn, ret>>

ReceiverDrop ==
  /\ fn = Client /\ pc \in {"live", "dropped"}
  /\ held # {}
  /\ drop_receiver
  /\ UNCHANGED <<fn, pc, ret>>

Init ==
  /\ fn \in {OnStack, OnHeap, Client}
  /\ pc = (IF fn = OnStack THEN "L10" ELSE IF fn = OnHeap THEN "L22" ELSE "start")
  /\ storage = "None"
  /\ fstate = [f \in Fields |-> "Uninit"]
  /\ content = [f \in Fields |-> 0]
  /\ held = {}
  /\ released = [f \in Fields |-> 0]
  /\ dropped = FALSE
  /\ a = <<>>
  /\ b = <<>>
  /\ ret = <<>>
  /\ result = "None"
  /\ op = Op("none", "-")
  /\ nmoves = 0
  /\ taken = {}
  /\ naccess = 0

Next ==
  \/ StackLetFoo \/ StackLetA \/ StackLetB \/ StackReturn \/ StackExit
  \/ HeapLetFoo \/ HeapLetA \/ HeapReturn \/ HeapExit
  \/ Construct \/ MoveField \/ AccessField \/ Drop \/ ReceiverDrop

Spec == Init /\ [][Next]_vars

\* ---- the claims ----

\* the owners of field f's content: foo while the field is Owned and foo is
\* in scope, the receiver a while it holds the field
Owners(f) ==
  (IF ~dropped /\ fstate[f] = "Owned" THEN {"foo"} ELSE {})
    \cup (IF f \in held THEN {"a"} ELSE {})

\* C1: on a Heap composite, once a field has been moved out every field is
\* Moved, and a read of any field (the moved one or another) is rejected with
\* UseAfterMove.
C1_HeapWholeValueInvalidation ==
  (storage = "Heap" /\ nmoves >= 1) =>
     /\ \A f \in Fields : fstate[f] = "Moved"
     /\ (op.name = "access_field" => result = "UseAfterMove")

C1_Witness ==
  /\ storage = "Heap" /\ taken = {"y"}
  /\ op = Op("access_field", "x") /\ result = "UseAfterMove"

\* C2: on a Stack composite, moving field A leaves the state and content of
\* every other field B unchanged, and a read of an Owned B after the move
\* succeeds and returns the value B was constructed with.
C2_StackPartialMove ==
  [][ /\ (op'.name # "construct" => content' = content)
      /\ (storage = "Stack" /\ op'.name = "move_field" =>
            \A g \in Fields \ {op'.field} : fstate'[g] = fstate[g])
      /\ (storage = "Stack" /\ taken # {} /\ op'.name = "access_field"
            /\ op'.field \notin taken =>
              /\ fstate[op'.field] = "Owned"
              /\ result' = "Ok"
              /\ b' = <<content[op'.field]>>) ]_vars

C2_Witness ==
  /\ storage = "Stack" /\ taken = {"y"} /\ fstate["y"] = "Moved"
  /\ op = Op("access_field", "x") /\ result = "Ok"
  /\ b = <<content["x"]>> /\ content["x"] # content["y"]

\* C3: on a Stack composite, a read of field A through foo after A has been
\* moved out is rejected with UseAfterMove.
C3_StackUseAfterMove ==
  (storage = "Stack" /\ op.name = "access_field" /\ op.field \in taken) =>
     result = "UseAfterMove"

C3_Witness ==
  /\ storage = "Stack" /\ taken = {"y"}
  /\ op = Op("access_field", "y") /\ result = "UseAfterMove"

\* C4: move_semantics_of_struct_values_on_stack is accepted and returns 10:
\* it has moved y out and read x, which is still Owned, and returns that read.
C4_StackReturns10 ==
  fn = OnStack =>
     /\ pc # "rejected"
     /\ (pc \in {"L19", "done"} =>
           /\ ret = <<10>>
           /\ ret = b
           /\ taken = {"y"}
           /\ fstate["x"] = "Owned")

C4_Witness == fn = OnStack /\ pc = "done" /\ ret = <<10>>

\* C5: move_semantics_of_struct_values_on_heap is accepted and returns 10,
\* the integer behind the moved-out y handle, after exactly one move and no
\* field read through foo.
C5_HeapReturns10 ==
  fn = OnHeap =>
     /\ pc # "rejected"
     /\ (pc \in {"L30", "done"} =>
           /\ ret = <<10>>
           /\ ret = <<content["y"]>>
           /\ nmoves = 1
           /\ taken = {"y"}
           /\ naccess = 0)
     /\ (pc = "L30" => ret = a)

C5_Witness == fn = OnHeap /\ pc = "done" /\ ret = <<10>> /\ naccess = 0

\* C6: a composite that is constructed and dropped with no move in between
\* has every field released exactly once.
C6_ConstructThenDrop ==
  (dropped /\ nmoves = 0) => \A f \in Fields : released[f] = 1

C6_Witness ==
  /\ fn = Client /\ storage = "Heap" /\ op.name = "drop" /\ nmoves = 0
  /\ \A f \in Fields : released[f] = 1

\* C7: every field is Owned right after construct, and a field's state only
\* ever changes from Owned to Moved: a Moved field stays Moved.
C7_OwnedToMovedOnly ==
  [][ /\ (op'.name = "construct" => \A f \in Fields : fstate'[f] = "Owned")
      /\ \A f \in Fields :
           /\ (fstate[f] = "Moved" => fstate'[f] = "Moved")
           /\ (fstate[f] = "Owned" => fstate'[f] \in {"Owned", "Moved"}) ]_vars

C7_Witness ==
  /\ fstate["y"] = "Moved" /\ fstate["x"] = "Owned"
  /\ op.name = "access_field" /\ naccess >= 2

C10_AccessIsPure ==
  [][ /\ (op'.name = "access_field" =>
            /\ fstate' = fstate /\ content' = content
            /\ held' = held /\ released' = released /\ taken' = taken)
      /\ (op'.name = "move_field" /\ result' = "UseAfterMove" =>
            /\ fstate' = fstate /\ content' = content
            /\ held' = held /\ released' = released /\ a' = a)
      /\ (op'.name = "access_field" /\ fstate[op'.field] = "Owned" =>
            result' = "Ok" /\ b' = <<content[op'.field]>>) ]_vars

C10_Witness ==
  /\ op = Op("access_field", "x") /\ result = "Ok" /\ naccess >= 2
  /\ fstate["x"] = "Owned" /\ b = <<content["x"]>>
====
